---- MODULE Spec2Model ----
(***************************************************************************)
(* A model of tidwall/shardmap (map.go): a hash map split into shards,     *)
(* each shard an rhh.Map guarded by its own sync.RWMutex.  Every public    *)
(* method of Map is modelled step by step (initDo, choose, lock, the       *)
(* store operation, unlock), so that threads interleave between steps.     *)
(***************************************************************************)
EXTENDS Integers, Sequences, FiniteSets, TLC

(***************************************************************************)
(* Bounds of the model.                                                    *)
(***************************************************************************)
NumThreads == 2     \* threads of the concurrent specification
MaxCPU == 3         \* runtime.NumCPU() ranges over 1..MaxCPU
MaxCalls == 3       \* calls started in one concurrent behaviour
MaxStop == 1        \* a Range visitor returns false at its n-th call, n <= MaxStop
MaxReentCalls == 4  \* calls started in one behaviour with callbacks that call the map
MaxLenCalls == 4    \* calls started in one behaviour of Len beside Set and Delete
MaxFairCalls == 2   \* calls started in one behaviour under the fair scheduler

(***************************************************************************)
(* Keys, values and the inputs of the calls.                               *)
(***************************************************************************)
Nil == "<nil>"                         \* Go's nil interface value
Keys == {"hello", "hi", "a"}
Values == {"world", "planet"}
Caps == {0, 100}                       \* New(cap); the zero Map has cap = 0
Accepts == {"nil", "true", "false"}    \* no callback / one that accepts / one that rejects
Threads == 1 .. NumThreads
\* a callback or visitor that calls the map runs that call in a frame of its
\* own, on the thread of its caller: thread t has the frames t and Child(t)
Frames == 1 .. 2 * NumThreads
Child(t) == t + NumThreads

\* xxhash.Sum64String is an external hash function; a fixed table of hash
\* values stands for it (31 bits wide here, choose only reads the low bits).
\* "hello" and "hi" share a shard when there are 16 shards and are apart
\* when there are 32; "a" is always in a shard of its own.
Sum64String(key) ==
    CASE key = "hello" -> 1000000037
      [] key = "hi"    -> 53
      [] OTHER         -> 77777770

\* x & y on non-negative integers
RECURSIVE BitAnd(_, _)
BitAnd(x, y) ==
    IF x = 0 \/ y = 0 THEN 0
    ELSE (x % 2) * (y % 2) + 2 * BitAnd(x \div 2, y \div 2)

(***************************************************************************)
(* rhh.Map, the store of one shard: Set/Get/Delete/Len/Range on a single   *)
(* hash table.  kv[k] = Nil says that k has no entry.                      *)
(***************************************************************************)
rhhNew(c) == [cap |-> c, kv |-> [k \in Keys |-> Nil]]
rhhGet(m, k) == [val |-> m.kv[k], ok |-> m.kv[k] # Nil]
rhhSet(m, k, v) == [m EXCEPT !.kv[k] = v]
rhhDelete(m, k) == [m EXCEPT !.kv[k] = Nil]
rhhLen(m) == Cardinality({k \in Keys : m.kv[k] # Nil})
rhhKeys(m) == {k \in Keys : m.kv[k] # Nil}

(***************************************************************************)
(* State.                                                                  *)
(***************************************************************************)
VARIABLES
    ncpu,      \* runtime.NumCPU() of the machine
    cap,       \* Map.cap
    once,      \* Map.init (sync.Once): "new", "running" or "done"
    shards,    \* Map.shards
    mus,       \* Map.mus: per shard [w: writer holding or waiting (0 none), r: active readers]
    maps,      \* Map.maps: per shard an rhh.Map
    pc,        \* per frame: the step it is at
    call,      \* per frame: the method it is in and its arguments
    loc,       \* per frame: the local variables of that method
    obs,       \* per frame: what the caller's callback/visitor has seen
    ret,       \* per frame: the values the method returned
    ref,       \* reference map: the single key/value map the calls are compared with
    exp,       \* per frame: the result the reference map gives for the call
    script,    \* calls a scripted caller has still to make (<<>>: free caller)
    log,       \* calls a scripted caller has completed, with their results
    ncalls,    \* number of calls started
    sizes      \* per frame in Len: the sizes the reference map has had since the call

env == <<ncpu, cap>>
drv == <<script, log, ncalls, sizes>>
vars == <<ncpu, cap, once, shards, mus, maps, pc, call, loc, obs, ret, ref, exp,
          script, log, ncalls, sizes>>

NoCall == [op |-> "none", key |-> "", value |-> Nil, accept |-> "nil", iter |-> 0]
Loc0 == [shard |-> 0, prev |-> Nil, ok |-> FALSE, i |-> 0, len |-> 0,
         done |-> FALSE, seen |-> {}]
Obs0 == [n |-> 0, cb |-> FALSE, cbPrev |-> Nil, cbOk |-> FALSE, nested |-> FALSE]
Ret0 == [val |-> Nil, ok |-> FALSE, len |-> 0]

CallSet(op, key, value) ==
    [op |-> op, key |-> key, value |-> value, accept |-> "nil", iter |-> 0]
CallAcc(op, key, value, accept) ==
    [op |-> op, key |-> key, value |-> value, accept |-> accept, iter |-> 0]
CallKey(op, key) == CallSet(op, key, Nil)
CallAll(op) == CallSet(op, "", Nil)
CallRange(stop) == [op |-> "Range", key |-> "", value |-> Nil, accept |-> "nil", iter |-> stop]

\* every call over keys K and values V
Calls(K, V) ==
    {CallSet("Set", k, v) : k \in K, v \in V}
    \cup {CallKey(o, k) : o \in {"Get", "Delete"}, k \in K}
    \cup {CallAcc("SetAccept", k[1], k[2], a) : k \in K \X V, a \in Accepts}
    \cup {CallAcc("DeleteAccept", k, Nil, a) : k \in K, a \in Accepts}
    \cup {CallAll(o) : o \in {"Len", "Clear"}}
    \cup {CallRange(s) : s \in 0 .. MaxStop}

\* the first step of a method after initDo
Entry(op) ==
    CASE op = "Set" -> "Set_Lock"
      [] op = "Get" -> "Get_RLock"
      [] op = "Delete" -> "Delete_Lock"
      [] op = "SetAccept" -> "SetAccept_Lock"
      [] op = "DeleteAccept" -> "DeleteAccept_Lock"
      [] op = "Len" -> "Len_for"
      [] op = "Range" -> "Range_for"
      [] OTHER -> "Clear_for"

InitWith(cpus, caps, scripts) ==
    /\ ncpu \in cpus
    /\ cap \in caps
    /\ once = "new"
    /\ shards = 0
    /\ mus = [i \in {} |-> 0]
    /\ maps = [i \in {} |-> 0]
    /\ pc = [t \in Frames |-> "idle"]
    /\ call = [t \in Frames |-> NoCall]
    /\ loc = [t \in Frames |-> Loc0]
    /\ obs = [t \in Frames |-> Obs0]
    /\ ret = [t \in Frames |-> Ret0]
    /\ ref = [k \in Keys |-> Nil]
    /\ exp = [t \in Frames |-> Ret0]
    /\ script \in scripts
    /\ log = <<>>
    /\ ncalls = 0
    /\ sizes = [t \in Frames |-> {}]

\* the number of keys of a reference map
Size(r) == Cardinality({k \in Keys : r[k] # Nil})
\* the reference map becomes r while Len calls are under way
Sized(r) == [t \in Frames |-> IF call[t].op = "Len" THEN sizes[t] \cup {Size(r)} ELSE {}]
\* frame t starts call c
Sizing(t, c) == [sizes EXCEPT ![t] = IF c.op = "Len" THEN {Size(ref)} ELSE {}]

Goto(t, to) == pc' = [pc EXCEPT ![t] = to]

(***************************************************************************)
(* A caller starts a call: every method begins with m.initDo().            *)
(***************************************************************************)
Call(t, c) ==
    /\ pc[t] = "idle"
    /\ call' = [call EXCEPT ![t] = c]
    /\ Goto(t, "initDo")
    /\ sizes' = Sizing(t, c)
    /\ UNCHANGED <<env, once, shards, mus, maps, loc, obs, ret, ref, exp>>

(***************************************************************************)
(* initDo: m.init.Do(func() {...}).  sync.Once runs the function in the    *)
(* first caller; callers that arrive while it runs wait until it is done.  *)
(***************************************************************************)
RECURSIVE ShardsFor_le(_, _)
\* for m.shards <= runtime.NumCPU()*16
ShardsFor_le(s, n) == IF s <= n * 16 THEN ShardsFor_le(s * 2, n) ELSE s

RECURSIVE ShardsFor(_, _)
ShardsFor(s, n) == IF s < n * 16 THEN ShardsFor(s * 2, n) ELSE s

initDoEnter(t) ==
    /\ pc[t] = "initDo"
    /\ once = "new"
    /\ once' = "running"
    /\ Goto(t, "initDo_func")
    /\ UNCHANGED <<env, shards, mus, maps, call, loc, obs, ret, ref, exp, drv>>

initDoFunc(t) ==
    /\ pc[t] = "initDo_func"
    /\ LET n == ShardsFor(1, ncpu)
           scap == cap \div n
       IN /\ shards' = n
          /\ mus' = [i \in 0 .. n - 1 |-> [w |-> 0, r |-> 0]]
          /\ maps' = [i \in 0 .. n - 1 |-> rhhNew(scap)]
    /\ Goto(t, "initDo_done")
    /\ UNCHANGED <<env, once, call, loc, obs, ret, ref, exp, drv>>

initDoLeave(t) ==
    /\ pc[t] = "initDo_done"
    /\ once' = "done"
    /\ Goto(t, Entry(call[t].op))
    /\ UNCHANGED <<env, shards, mus, maps, call, loc, obs, ret, ref, exp, drv>>

\* a caller that finds the initialisation started does not wait for its end
initDoSkip_nowait(t) ==
    /\ pc[t] = "initDo"
    /\ once # "new"
    /\ Goto(t, Entry(call[t].op))
    /\ UNCHANGED <<env, once, shards, mus, maps, call, loc, obs, ret, ref, exp, drv>>

initDoSkip(t) ==
    /\ pc[t] = "initDo"
    /\ once = "done"
    /\ Goto(t, Entry(call[t].op))
    /\ UNCHANGED <<env, once, shards, mus, maps, call, loc, obs, ret, ref, exp, drv>>

(***************************************************************************)
(* choose: the shard of a key.                                             *)
(***************************************************************************)
\* every key goes to shard 0, as under one lock for the whole map
choose_zero(key) == BitAnd(Sum64String(key), 0)
\* the mask leaves out the lowest bit
choose_even(key) == BitAnd(Sum64String(key), shards - 2)
choose(key) == BitAnd(Sum64String(key), shards - 1)

(***************************************************************************)
(* sync.RWMutex.  Lock first shuts out other writers and new readers (w),  *)
(* then waits until the active readers have left; RLock waits while a      *)
(* writer holds the mutex or waits for it.                                 *)
(***************************************************************************)
Lock(t, s, from, to) ==
    /\ pc[t] = from
    /\ mus[s].w = 0
    /\ mus' = [mus EXCEPT ![s].w = t]
    /\ Goto(t, to)

Locked(t, s, from, to) ==
    /\ pc[t] = from
    /\ mus[s].w = t
    /\ mus[s].r = 0
    /\ Goto(t, to)
    /\ UNCHANGED mus

Unlock(t, s) == mus' = [mus EXCEPT ![s].w = 0]

RLock(t, s, from, to) ==
    /\ pc[t] = from
    /\ mus[s].w = 0
    /\ mus' = [mus EXCEPT ![s].r = @ + 1]
    /\ Goto(t, to)

RUnlock(t, s) == mus' = [mus EXCEPT ![s].r = @ - 1]

(***************************************************************************)
(* Set                                                                     *)
(***************************************************************************)
SetLock(t) ==
    /\ Lock(t, choose(call[t].key), "Set_Lock", "Set_Locking")
    /\ loc' = [loc EXCEPT ![t].shard = choose(call[t].key)]
    /\ UNCHANGED <<env, once, shards, maps, call, obs, ret, ref, exp, drv>>

SetLocked(t) ==
    /\ Locked(t, loc[t].shard, "Set_Locking", "Set_Set")
    /\ UNCHANGED <<env, once, shards, maps, call, loc, obs, ret, ref, exp, drv>>

SetSet(t) ==
    /\ pc[t] = "Set_Set"
    /\ LET s == loc[t].shard
           k == call[t].key
           g == rhhGet(maps[s], k)
       IN /\ maps' = [maps EXCEPT ![s] = rhhSet(@, k, call[t].value)]
          /\ loc' = [loc EXCEPT ![t].prev = g.val, ![t].ok = g.ok]
          /\ exp' = [exp EXCEPT ![t] = [val |-> ref[k], ok |-> ref[k] # Nil, len |-> 0]]
          /\ ref' = [ref EXCEPT ![k] = call[t].value]
    /\ Goto(t, "Set_Unlock")
    /\ sizes' = Sized(ref')
    /\ UNCHANGED <<env, once, shards, mus, call, obs, ret, script, log, ncalls>>

SetUnlock(t) ==
    /\ pc[t] = "Set_Unlock"
    /\ Unlock(t, loc[t].shard)
    /\ ret' = [ret EXCEPT ![t] = [val |-> loc[t].prev, ok |-> loc[t].ok, len |-> 0]]
    /\ Goto(t, "done")
    /\ UNCHANGED <<env, once, shards, maps, call, loc, obs, ref, exp, drv>>

(***************************************************************************)
(* Get                                                                     *)
(***************************************************************************)
\* Get reads the shard without RLock
GetRLock_none(t) ==
    /\ pc[t] = "Get_RLock"
    /\ mus' = [mus EXCEPT ![choose(call[t].key)].r = @ + 1]
    /\ Goto(t, "Get_Get")
    /\ loc' = [loc EXCEPT ![t].shard = choose(call[t].key)]
    /\ UNCHANGED <<env, once, shards, maps, call, obs, ret, ref, exp, drv>>

GetRLock(t) ==
    /\ RLock(t, choose(call[t].key), "Get_RLock", "Get_Get")
    /\ loc' = [loc EXCEPT ![t].shard = choose(call[t].key)]
    /\ UNCHANGED <<env, once, shards, maps, call, obs, ret, ref, exp, drv>>

GetGet(t) ==
    /\ pc[t] = "Get_Get"
    /\ LET k == call[t].key
           g == rhhGet(maps[loc[t].shard], k)
       IN /\ loc' = [loc EXCEPT ![t].prev = g.val, ![t].ok = g.ok]
          /\ exp' = [exp EXCEPT ![t] = [val |-> ref[k], ok |-> ref[k] # Nil, len |-> 0]]
    /\ Goto(t, "Get_RUnlock")
    /\ UNCHANGED <<env, once, shards, mus, maps, call, obs, ret, ref, drv>>

GetRUnlock(t) ==
    /\ pc[t] = "Get_RUnlock"
    /\ RUnlock(t, loc[t].shard)
    /\ ret' = [ret EXCEPT ![t] = [val |-> loc[t].prev, ok |-> loc[t].ok, len |-> 0]]
    /\ Goto(t, "done")
    /\ UNCHANGED <<env, once, shards, maps, call, loc, obs, ref, exp, drv>>

(***************************************************************************)
(* Delete                                                                  *)
(***************************************************************************)
DeleteLock(t) ==
    /\ Lock(t, choose(call[t].key), "Delete_Lock", "Delete_Locking")
    /\ loc' = [loc EXCEPT ![t].shard = choose(call[t].key)]
    /\ UNCHANGED <<env, once, shards, maps, call, obs, ret, ref, exp, drv>>

DeleteLocked(t) ==
    /\ Locked(t, loc[t].shard, "Delete_Locking", "Delete_Delete")
    /\ UNCHANGED <<env, once, shards, maps, call, loc, obs, ret, ref, exp, drv>>

\* the entry stays in the store
DeleteDelete_keep(t) ==
    /\ pc[t] = "Delete_Delete"
    /\ LET k == call[t].key
           g == rhhGet(maps[loc[t].shard], k)
       IN /\ maps' = maps
          /\ loc' = [loc EXCEPT ![t].prev = g.val, ![t].ok = g.ok]
          /\ exp' = [exp EXCEPT ![t] = [val |-> ref[k], ok |-> ref[k] # Nil, len |-> 0]]
          /\ ref' = [ref EXCEPT ![k] = Nil]
    /\ Goto(t, "Delete_Unlock")
    /\ sizes' = Sized(ref')
    /\ UNCHANGED <<env, once, shards, mus, call, obs, ret, script, log, ncalls>>

DeleteDelete(t) ==
    /\ pc[t] = "Delete_Delete"
    /\ LET s == loc[t].shard
           k == call[t].key
           g == rhhGet(maps[s], k)
       IN /\ maps' = [maps EXCEPT ![s] = rhhDelete(@, k)]
          /\ loc' = [loc EXCEPT ![t].prev = g.val, ![t].ok = g.ok]
          /\ exp' = [exp EXCEPT ![t] = [val |-> ref[k], ok |-> ref[k] # Nil, len |-> 0]]
          /\ ref' = [ref EXCEPT ![k] = Nil]
    /\ Goto(t, "Delete_Unlock")
    /\ sizes' = Sized(ref')
    /\ UNCHANGED <<env, once, shards, mus, call, obs, ret, script, log, ncalls>>

DeleteUnlock(t) ==
    /\ pc[t] = "Delete_Unlock"
    /\ Unlock(t, loc[t].shard)
    /\ ret' = [ret EXCEPT ![t] = [val |-> loc[t].prev, ok |-> loc[t].ok, len |-> 0]]
    /\ Goto(t, "done")
    /\ UNCHANGED <<env, once, shards, maps, call, loc, obs, ref, exp, drv>>

(***************************************************************************)
(* SetAccept: the Set is made first, then accept sees the previous value   *)
(* and a rejected change is reverted, all under the shard's lock.          *)
(***************************************************************************)
SetAcceptLock(t) ==
    /\ Lock(t, choose(call[t].key), "SetAccept_Lock", "SetAccept_Locking")
    /\ loc' = [loc EXCEPT ![t].shard = choose(call[t].key)]
    /\ UNCHANGED <<env, once, shards, maps, call, obs, ret, ref, exp, drv>>

SetAcceptLocked(t) ==
    /\ Locked(t, loc[t].shard, "SetAccept_Locking", "SetAccept_Set")
    /\ UNCHANGED <<env, once, shards, maps, call, loc, obs, ret, ref, exp, drv>>

\* the lock is released right after the Set, as in Set, not deferred
SetAcceptSet_unlock(t) ==
    /\ pc[t] = "SetAccept_Set"
    /\ LET s == loc[t].shard
           k == call[t].key
           g == rhhGet(maps[s], k)
       IN /\ maps' = [maps EXCEPT ![s] = rhhSet(@, k, call[t].value)]
          /\ loc' = [loc EXCEPT ![t].prev = g.val, ![t].ok = g.ok]
          /\ mus' = [mus EXCEPT ![s].w = 0]
    /\ Goto(t, "SetAccept_accept")
    /\ UNCHANGED <<env, once, shards, call, obs, ret, ref, exp, drv>>

SetAcceptSet(t) ==
    /\ pc[t] = "SetAccept_Set"
    /\ LET s == loc[t].shard
           k == call[t].key
           g == rhhGet(maps[s], k)
       IN /\ maps' = [maps EXCEPT ![s] = rhhSet(@, k, call[t].value)]
          /\ loc' = [loc EXCEPT ![t].prev = g.val, ![t].ok = g.ok]
    /\ Goto(t, "SetAccept_accept")
    /\ UNCHANGED <<env, once, shards, mus, call, obs, ret, ref, exp, drv>>

\* accept != nil && !accept(prev, replaced)
Rejected_nil(accept) == accept # "true"
Rejected(accept) == accept = "false"

\* revert unaccepted change: delete the newly set data, or reset updated data
SetAcceptRevert_delete(m, k, prev, replaced) == rhhDelete(m, k)
SetAcceptRevert_keep(m, k, prev, replaced) == m
\* the revert empties the shard's store
SetAcceptRevert_clear(m, k, prev, replaced) == rhhNew(m.cap)
SetAcceptRevert(m, k, prev, replaced) ==
    IF ~replaced THEN rhhDelete(m, k) ELSE rhhSet(m, k, prev)

SetAcceptAccept(t) ==
    /\ pc[t] = "SetAccept_accept"
    /\ LET s == loc[t].shard
           k == call[t].key
           prev == loc[t].prev
           replaced == loc[t].ok
       IN IF Rejected(call[t].accept)
          THEN /\ maps' = [maps EXCEPT ![s] = SetAcceptRevert(@, k, prev, replaced)]
               /\ loc' = [loc EXCEPT ![t].prev = Nil, ![t].ok = FALSE]
               /\ obs' = [obs EXCEPT ![t].cb = TRUE, ![t].cbPrev = prev, ![t].cbOk = replaced]
               /\ exp' = [exp EXCEPT ![t] = Ret0]
               /\ ref' = ref
          ELSE /\ maps' = maps
               /\ loc' = loc
               /\ obs' = IF call[t].accept = "nil" THEN obs
                         ELSE [obs EXCEPT ![t].cb = TRUE, ![t].cbPrev = prev,
                                          ![t].cbOk = replaced]
               /\ exp' = [exp EXCEPT ![t] = [val |-> ref[k], ok |-> ref[k] # Nil, len |-> 0]]
               /\ ref' = [ref EXCEPT ![k] = call[t].value]
    /\ Goto(t, "SetAccept_Unlock")
    /\ sizes' = Sized(ref')
    /\ UNCHANGED <<env, once, shards, mus, call, ret, script, log, ncalls>>

SetAcceptUnlock(t) ==
    /\ pc[t] = "SetAccept_Unlock"
    /\ Unlock(t, loc[t].shard)
    /\ ret' = [ret EXCEPT ![t] = [val |-> loc[t].prev, ok |-> loc[t].ok, len |-> 0]]
    /\ Goto(t, "done")
    /\ UNCHANGED <<env, once, shards, maps, call, loc, obs, ref, exp, drv>>

(***************************************************************************)
(* DeleteAccept                                                            *)
(***************************************************************************)
DeleteAcceptLock(t) ==
    /\ Lock(t, choose(call[t].key), "DeleteAccept_Lock", "DeleteAccept_Locking")
    /\ loc' = [loc EXCEPT ![t].shard = choose(call[t].key)]
    /\ UNCHANGED <<env, once, shards, maps, call, obs, ret, ref, exp, drv>>

DeleteAcceptLocked(t) ==
    /\ Locked(t, loc[t].shard, "DeleteAccept_Locking", "DeleteAccept_Delete")
    /\ UNCHANGED <<env, once, shards, maps, call, loc, obs, ret, ref, exp, drv>>

\* the lock is released right after the Delete, as in Delete, not deferred
DeleteAcceptDelete_unlock(t) ==
    /\ pc[t] = "DeleteAccept_Delete"
    /\ LET s == loc[t].shard
           k == call[t].key
           g == rhhGet(maps[s], k)
       IN /\ maps' = [maps EXCEPT ![s] = rhhDelete(@, k)]
          /\ loc' = [loc EXCEPT ![t].prev = g.val, ![t].ok = g.ok]
          /\ mus' = [mus EXCEPT ![s].w = 0]
    /\ Goto(t, "DeleteAccept_accept")
    /\ UNCHANGED <<env, once, shards, call, obs, ret, ref, exp, drv>>

DeleteAcceptDelete(t) ==
    /\ pc[t] = "DeleteAccept_Delete"
    /\ LET s == loc[t].shard
           k == call[t].key
           g == rhhGet(maps[s], k)
       IN /\ maps' = [maps EXCEPT ![s] = rhhDelete(@, k)]
          /\ loc' = [loc EXCEPT ![t].prev = g.val, ![t].ok = g.ok]
    /\ Goto(t, "DeleteAccept_accept")
    /\ UNCHANGED <<env, once, shards, mus, call, obs, ret, ref, exp, drv>>

\* revert unaccepted change: reset updated data
DeleteAcceptRevert_drop(m, k, prev, deleted) == m
DeleteAcceptRevert(m, k, prev, deleted) ==
    IF deleted THEN rhhSet(m, k, prev) ELSE m

DeleteAcceptAccept(t) ==
    /\ pc[t] = "DeleteAccept_accept"
    /\ LET s == loc[t].shard
           k == call[t].key
           prev == loc[t].prev
           deleted == loc[t].ok
       IN IF Rejected(call[t].accept)
          THEN /\ maps' = [maps EXCEPT ![s] = DeleteAcceptRevert(@, k, prev, deleted)]
               /\ loc' = [loc EXCEPT ![t].prev = Nil, ![t].ok = FALSE]
               /\ obs' = [obs EXCEPT ![t].cb = TRUE, ![t].cbPrev = prev, ![t].cbOk = deleted]
               /\ exp' = [exp EXCEPT ![t] = Ret0]
               /\ ref' = ref
          ELSE /\ maps' = maps
               /\ loc' = loc
               /\ obs' = IF call[t].accept = "nil" THEN obs
                         ELSE [obs EXCEPT ![t].cb = TRUE, ![t].cbPrev = prev,
                                          ![t].cbOk = deleted]
               /\ exp' = [exp EXCEPT ![t] = [val |-> ref[k], ok |-> ref[k] # Nil, len |-> 0]]
               /\ ref' = [ref EXCEPT ![k] = Nil]
    /\ Goto(t, "DeleteAccept_Unlock")
    /\ sizes' = Sized(ref')
    /\ UNCHANGED <<env, once, shards, mus, call, ret, script, log, ncalls>>

DeleteAcceptUnlock(t) ==
    /\ pc[t] = "DeleteAccept_Unlock"
    /\ Unlock(t, loc[t].shard)
    /\ ret' = [ret EXCEPT ![t] = [val |-> loc[t].prev, ok |-> loc[t].ok, len |-> 0]]
    /\ Goto(t, "done")
    /\ UNCHANGED <<env, once, shards, maps, call, loc, obs, ref, exp, drv>>

(***************************************************************************)
(* Len: for each shard in turn, Lock, add the shard's Len, Unlock.         *)
(***************************************************************************)
LenLock(t) ==
    /\ loc[t].i < shards
    /\ Lock(t, loc[t].i, "Len_for", "Len_Locking")
    /\ UNCHANGED <<env, once, shards, maps, call, loc, obs, ret, ref, exp, drv>>

LenLocked(t) ==
    /\ Locked(t, loc[t].i, "Len_Locking", "Len_Len")
    /\ UNCHANGED <<env, once, shards, maps, call, loc, obs, ret, ref, exp, drv>>

\* len = instead of len +=
LenLen_assign(t) ==
    /\ pc[t] = "Len_Len"
    /\ loc' = [loc EXCEPT ![t].len = rhhLen(maps[loc[t].i])]
    /\ Goto(t, "Len_Unlock")
    /\ UNCHANGED <<env, once, shards, mus, maps, call, obs, ret, ref, exp, drv>>

LenLen(t) ==
    /\ pc[t] = "Len_Len"
    /\ loc' = [loc EXCEPT ![t].len = @ + rhhLen(maps[loc[t].i])]
    /\ Goto(t, "Len_Unlock")
    /\ UNCHANGED <<env, once, shards, mus, maps, call, obs, ret, ref, exp, drv>>

\* the loop steps over the shard after the one it counted
LenUnlock_skip(t) ==
    /\ pc[t] = "Len_Unlock"
    /\ Unlock(t, loc[t].i)
    /\ loc' = [loc EXCEPT ![t].i = @ + 2]
    /\ Goto(t, "Len_for")
    /\ UNCHANGED <<env, once, shards, maps, call, obs, ret, ref, exp, drv>>

LenUnlock(t) ==
    /\ pc[t] = "Len_Unlock"
    /\ Unlock(t, loc[t].i)
    /\ loc' = [loc EXCEPT ![t].i = @ + 1]
    /\ Goto(t, "Len_for")
    /\ UNCHANGED <<env, once, shards, maps, call, obs, ret, ref, exp, drv>>

LenReturn(t) ==
    /\ pc[t] = "Len_for"
    /\ loc[t].i >= shards
    /\ ret' = [ret EXCEPT ![t] = [val |-> Nil, ok |-> FALSE, len |-> loc[t].len]]
    /\ Goto(t, "done")
    /\ UNCHANGED <<env, once, shards, mus, maps, call, loc, obs, ref, exp, drv>>

(***************************************************************************)
(* Range: for each shard in turn, RLock, visit the shard's entries (in the *)
(* store's order, which is not specified), RUnlock; stop when iter says so.*)
(* call.iter = n > 0 is a visitor that returns false at its n-th call,     *)
(* call.iter = 0 one that always returns true.                             *)
(***************************************************************************)
\* Range visits the shard without RLock
RangeRLock_none(t) ==
    /\ loc[t].i < shards
    /\ pc[t] = "Range_for"
    /\ Goto(t, "Range_Range")
    /\ loc' = [loc EXCEPT ![t].seen = {}]
    /\ UNCHANGED <<env, once, shards, mus, maps, call, obs, ret, ref, exp, drv>>

RangeRLock(t) ==
    /\ loc[t].i < shards
    /\ RLock(t, loc[t].i, "Range_for", "Range_Range")
    /\ loc' = [loc EXCEPT ![t].seen = {}]
    /\ UNCHANGED <<env, once, shards, maps, call, obs, ret, ref, exp, drv>>

RangeIter(t) ==
    /\ pc[t] = "Range_Range"
    /\ \E k \in rhhKeys(maps[loc[t].i]) \ loc[t].seen :
          LET n == obs[t].n + 1
          IN /\ obs' = [obs EXCEPT ![t].n = n]
             /\ IF n = call[t].iter
                THEN /\ loc' = [loc EXCEPT ![t].done = TRUE, ![t].seen = @ \cup {k}]
                     /\ Goto(t, "Range_RUnlock")
                ELSE /\ loc' = [loc EXCEPT ![t].seen = @ \cup {k}]
                     /\ UNCHANGED pc
    /\ UNCHANGED <<env, once, shards, mus, maps, call, ret, ref, exp, drv>>

RangeIterEnd(t) ==
    /\ pc[t] = "Range_Range"
    /\ rhhKeys(maps[loc[t].i]) \ loc[t].seen = {}
    /\ Goto(t, "Range_RUnlock")
    /\ UNCHANGED <<env, once, shards, mus, maps, call, loc, obs, ret, ref, exp, drv>>

\* if done { break }
RangeBreak_never(done) == FALSE
RangeBreak(done) == done

\* the break leaves the loop before RUnlock
RangeRUnlock_leak(t) ==
    /\ pc[t] = "Range_RUnlock"
    /\ IF RangeBreak(loc[t].done)
       THEN /\ Goto(t, "done")
            /\ UNCHANGED <<loc, mus>>
       ELSE /\ Goto(t, "Range_for")
            /\ RUnlock(t, loc[t].i)
            /\ loc' = [loc EXCEPT ![t].i = @ + 1]
    /\ UNCHANGED <<env, once, shards, maps, call, obs, ret, ref, exp, drv>>

RangeRUnlock(t) ==
    /\ pc[t] = "Range_RUnlock"
    /\ RUnlock(t, loc[t].i)
    /\ IF RangeBreak(loc[t].done)
       THEN /\ Goto(t, "done")
            /\ UNCHANGED loc
       ELSE /\ Goto(t, "Range_for")
            /\ loc' = [loc EXCEPT ![t].i = @ + 1]
    /\ UNCHANGED <<env, once, shards, maps, call, obs, ret, ref, exp, drv>>

RangeReturn(t) ==
    /\ pc[t] = "Range_for"
    /\ loc[t].i >= shards
    /\ Goto(t, "done")
    /\ UNCHANGED <<env, once, shards, mus, maps, call, loc, obs, ret, ref, exp, drv>>

(***************************************************************************)
(* Clear: for each shard in turn, Lock, replace the store by a new one,    *)
(* Unlock.  The reference map loses the keys of the shard at that moment.  *)
(***************************************************************************)
ClearLock(t) ==
    /\ loc[t].i < shards
    /\ Lock(t, loc[t].i, "Clear_for", "Clear_Locking")
    /\ UNCHANGED <<env, once, shards, maps, call, loc, obs, ret, ref, exp, drv>>

ClearLocked(t) ==
    /\ Locked(t, loc[t].i, "Clear_Locking", "Clear_New")
    /\ UNCHANGED <<env, once, shards, maps, call, loc, obs, ret, ref, exp, drv>>

\* the new store is not assigned to the shard
ClearNew_lost(t) ==
    /\ pc[t] = "Clear_New"
    /\ maps' = maps
    /\ ref' = [k \in Keys |-> IF choose(k) = loc[t].i THEN Nil ELSE ref[k]]
    /\ Goto(t, "Clear_Unlock")
    /\ sizes' = Sized(ref')
    /\ UNCHANGED <<env, once, shards, mus, call, loc, obs, ret, exp, script, log, ncalls>>

\* every shard's store is replaced at the visit of each shard
ClearNew_all(t) ==
    /\ pc[t] = "Clear_New"
    /\ maps' = [i \in DOMAIN maps |-> rhhNew(cap \div shards)]
    /\ ref' = [k \in Keys |-> IF choose(k) = loc[t].i THEN Nil ELSE ref[k]]
    /\ Goto(t, "Clear_Unlock")
    /\ sizes' = Sized(ref')
    /\ UNCHANGED <<env, once, shards, mus, call, loc, obs, ret, exp, script, log, ncalls>>

ClearNew(t) ==
    /\ pc[t] = "Clear_New"
    /\ maps' = [maps EXCEPT ![loc[t].i] = rhhNew(cap \div shards)]
    /\ ref' = [k \in Keys |-> IF choose(k) = loc[t].i THEN Nil ELSE ref[k]]
    /\ Goto(t, "Clear_Unlock")
    /\ sizes' = Sized(ref')
    /\ UNCHANGED <<env, once, shards, mus, call, loc, obs, ret, exp, script, log, ncalls>>

ClearUnlock(t) ==
    /\ pc[t] = "Clear_Unlock"
    /\ Unlock(t, loc[t].i)
    /\ loc' = [loc EXCEPT ![t].i = @ + 1]
    /\ Goto(t, "Clear_for")
    /\ UNCHANGED <<env, once, shards, maps, call, obs, ret, ref, exp, drv>>

ClearReturn(t) ==
    /\ pc[t] = "Clear_for"
    /\ loc[t].i >= shards
    /\ Goto(t, "done")
    /\ UNCHANGED <<env, once, shards, mus, maps, call, loc, obs, ret, ref, exp, drv>>

(***************************************************************************)
(* accept and iter are functions of the caller.  One that calls the map    *)
(* makes that call in the child frame of its thread, while the frame of    *)
(* SetAccept, DeleteAccept or Range waits, the shard's lock held, for the  *)
(* call to return.  A callback makes at most one such call.                *)
(***************************************************************************)
Enter(t, to, c) ==
    /\ ~obs[t].nested
    /\ pc[Child(t)] = "idle"
    /\ pc' = [pc EXCEPT ![t] = to, ![Child(t)] = "initDo"]
    /\ call' = [call EXCEPT ![Child(t)] = c]
    /\ obs' = [obs EXCEPT ![t].nested = TRUE]
    /\ sizes' = Sizing(Child(t), c)
    /\ UNCHANGED <<env, once, shards, mus, maps, loc, ret, ref, exp>>

Leave(t, from, to) ==
    /\ pc[t] = from
    /\ pc[Child(t)] = "done"
    /\ pc' = [pc EXCEPT ![t] = to, ![Child(t)] = "idle"]
    /\ call' = [call EXCEPT ![Child(t)] = NoCall]
    /\ loc' = [loc EXCEPT ![Child(t)] = Loc0]
    /\ obs' = [obs EXCEPT ![Child(t)] = Obs0]
    /\ ret' = [ret EXCEPT ![Child(t)] = Ret0]
    /\ exp' = [exp EXCEPT ![Child(t)] = Ret0]
    /\ sizes' = [sizes EXCEPT ![Child(t)] = {}]
    /\ UNCHANGED <<env, once, shards, mus, maps, ref>>

\* accept(prev, replaced) calls the map
SetAcceptCalls(t, c) ==
    /\ pc[t] = "SetAccept_accept"
    /\ call[t].accept # "nil"
    /\ Enter(t, "SetAccept_call", c)

SetAcceptResumes(t) == Leave(t, "SetAccept_call", "SetAccept_accept")

\* accept(prev, deleted) calls the map
DeleteAcceptCalls(t, c) ==
    /\ pc[t] = "DeleteAccept_accept"
    /\ call[t].accept # "nil"
    /\ Enter(t, "DeleteAccept_call", c)

DeleteAcceptResumes(t) == Leave(t, "DeleteAccept_call", "DeleteAccept_accept")

\* iter(key, value) calls the map, on an entry of the shard being visited
RangeIterCalls(t, c) ==
    /\ pc[t] = "Range_Range"
    /\ rhhKeys(maps[loc[t].i]) \ loc[t].seen # {}
    /\ Enter(t, "Range_call", c)

RangeIterResumes(t) == Leave(t, "Range_call", "Range_Range")

(***************************************************************************)
(* The caller takes the results and is ready for its next call.  A         *)
(* scripted caller records the call and what it returned.                  *)
(***************************************************************************)
Scripted == script # <<>> \/ log # <<>>

Return(t) ==
    /\ pc[t] = "done"
    /\ Goto(t, "idle")
    /\ call' = [call EXCEPT ![t] = NoCall]
    /\ loc' = [loc EXCEPT ![t] = Loc0]
    /\ obs' = [obs EXCEPT ![t] = Obs0]
    /\ ret' = [ret EXCEPT ![t] = Ret0]
    /\ exp' = [exp EXCEPT ![t] = Ret0]
    /\ log' = IF Scripted
              THEN Append(log, [call |-> call[t], ret |-> ret[t], obs |-> obs[t]])
              ELSE log
    /\ sizes' = [sizes EXCEPT ![t] = {}]
    /\ UNCHANGED <<env, once, shards, mus, maps, ref, script, ncalls>>

initStep(t) == initDoEnter(t) \/ initDoFunc(t) \/ initDoLeave(t) \/ initDoSkip(t)
SetStep(t) == SetLock(t) \/ SetLocked(t) \/ SetSet(t) \/ SetUnlock(t)
GetStep(t) == GetRLock(t) \/ GetGet(t) \/ GetRUnlock(t)
DeleteStep(t) == DeleteLock(t) \/ DeleteLocked(t) \/ DeleteDelete(t) \/ DeleteUnlock(t)
SetAcceptStep(t) ==
    \/ SetAcceptLock(t) \/ SetAcceptLocked(t) \/ SetAcceptSet(t)
    \/ SetAcceptAccept(t) \/ SetAcceptUnlock(t)
DeleteAcceptStep(t) ==
    \/ DeleteAcceptLock(t) \/ DeleteAcceptLocked(t) \/ DeleteAcceptDelete(t)
    \/ DeleteAcceptAccept(t) \/ DeleteAcceptUnlock(t)
LenStep(t) == LenLock(t) \/ LenLocked(t) \/ LenLen(t) \/ LenUnlock(t) \/ LenReturn(t)
RangeStep(t) ==
    \/ RangeRLock(t) \/ RangeIter(t) \/ RangeIterEnd(t) \/ RangeRUnlock(t)
    \/ RangeReturn(t)
ClearStep(t) ==
    \/ ClearLock(t) \/ ClearLocked(t) \/ ClearNew(t) \/ ClearUnlock(t)
    \/ ClearReturn(t)

\* the steps of the five methods that take a key
KeyStep(t) ==
    SetStep(t) \/ GetStep(t) \/ DeleteStep(t) \/ SetAcceptStep(t) \/ DeleteAcceptStep(t)

\* a step inside a method
Body(t) == initStep(t) \/ KeyStep(t) \/ LenStep(t) \/ RangeStep(t) \/ ClearStep(t)

Step(t) == Body(t) \/ Return(t)

(***************************************************************************)
(* Spec: NumThreads threads make up to MaxCalls calls in all, on one key    *)
(* and on the whole map, on the smallest machine (one CPU, 16 shards).     *)
(***************************************************************************)
ConcKeys == {"hello"}

FreeCall(t, K) ==
    /\ ~Scripted
    /\ \E c \in Calls(K, Values) : Call(t, c)
    /\ UNCHANGED <<script, log>>

Init == InitWith({1}, {0}, {<<>>})

Next ==
    \E t \in Threads :
        \/ Step(t)
        \/ /\ ncalls < MaxCalls
           /\ ncalls' = ncalls + 1
           /\ FreeCall(t, ConcKeys)

Spec == Init /\ [][Next]_vars

(***************************************************************************)
(* SeqSpec: one caller, any sequence of calls, or one of the scripts.      *)
(***************************************************************************)
\* the scenario of the specification's section 8
S_Planet ==
    << CallSet("Set", "hello", "world"),
       CallAcc("SetAccept", "hello", "planet", "true"),
       CallAcc("SetAccept", "hello", "world", "false"),
       CallKey("Get", "hello") >>

\* Set, an accepted SetAccept, Get
S_Accept ==
    << CallSet("Set", "hello", "world"),
       CallAcc("SetAccept", "hello", "planet", "true"),
       CallKey("Get", "hello") >>

\* TestSetAccept
S_TestSetAccept ==
    << CallSet("Set", "hello", "world"),
       CallAcc("SetAccept", "hello", "planet", "nil"),
       CallKey("Get", "hello"),
       CallAcc("SetAccept", "hello", "world", "true"),
       CallAcc("SetAccept", "hello", "planet", "false"),
       CallKey("Get", "hello"),
       CallAcc("SetAccept", "hi", "world", "false") >>

\* TestDeleteAccept
S_TestDeleteAccept ==
    << CallSet("Set", "hello", "world"),
       CallAcc("DeleteAccept", "hello", Nil, "nil"),
       CallSet("Set", "hello", "world"),
       CallAcc("DeleteAccept", "hello", Nil, "true"),
       CallSet("Set", "hello", "world"),
       CallAcc("DeleteAccept", "hello", Nil, "false"),
       CallKey("Get", "hello") >>

\* TestClear, followed by Get, Set, Get on a key that was cleared
S_TestClear ==
    << CallSet("Set", "hello", "world"),
       CallSet("Set", "hi", "world"),
       CallSet("Set", "a", "planet"),
       CallAll("Len"),
       CallAll("Clear"),
       CallAll("Len"),
       CallKey("Get", "hi"),
       CallSet("Set", "hi", "planet"),
       CallKey("Get", "hi") >>

Scripts == {<<>>, S_Planet, S_Accept, S_TestSetAccept, S_TestDeleteAccept, S_TestClear}

ScriptCall(t) ==
    /\ script # <<>>
    /\ Call(t, Head(script))
    /\ script' = Tail(script)
    /\ UNCHANGED <<log, ncalls>>

SeqInit == InitWith(1 .. MaxCPU, Caps, Scripts)

SeqNext ==
    \/ Step(1)
    \/ FreeCall(1, Keys) /\ UNCHANGED ncalls
    \/ ScriptCall(1)

SeqSpec == SeqInit /\ [][SeqNext]_vars

(***************************************************************************)
(* Definitions the properties are written with.                            *)
(***************************************************************************)
Result(v, ok) == [val |-> v, ok |-> ok, len |-> 0]
Returned(t, op) == pc[t] = "done" /\ call[t].op = op

\* the shards in which k has an entry, each with the value it holds there
Stored(k) == {<<s, maps[s].kv[k]>> : s \in {x \in DOMAIN maps : maps[x].kv[k] # Nil}}
\* what Stored(k) is when the map holds exactly what the reference map holds for k
AsRef(k) == IF ref[k] = Nil THEN {} ELSE {<<choose(k), ref[k]>>}
LogCalls == [j \in 1 .. Len(log) |-> log[j].call]

\* C1: with one caller, Set, Get and Delete return what the reference map
\* returns: Get(k) the value of the latest Set(k, v) not followed by a
\* Delete(k), or (nil, false); Set and Delete the old value and whether there
\* was one.  The map may have any capacity hint.
C1_SetGetDeleteAsReference ==
    \A op \in {"Set", "Get", "Delete"} :
        Returned(1, op) =>
            /\ ret[1] = exp[1]
            /\ Stored(call[1].key) = AsRef(call[1].key)

C1_Witness ==
    /\ Returned(1, "Delete")
    /\ ret[1] = Result("planet", TRUE)
    /\ cap = 0
    /\ ncpu = 2
    /\ ref["hi"] = "world"

\* C2: with one caller, Len returns the number of distinct keys present
\* (0 on a fresh map; overwriting a key or deleting an absent key does not
\* change it).
C2_LenCountsKeys ==
    Returned(1, "Len") => ret[1].len = Cardinality({k \in Keys : ref[k] # Nil})

C2_Witness ==
    /\ Returned(1, "Len")
    /\ ret[1].len = 3
    /\ ncpu = 2

\* C3: a SetAccept whose callback returns false leaves the key as it was
\* (absent, or holding the same value), returns (nil, false), and the callback
\* was given the value and existence flag the key had before the call.
C3_SetAcceptRejected ==
    (Returned(1, "SetAccept") /\ call[1].accept = "false") =>
        LET k == call[1].key
        IN /\ Stored(k) = AsRef(k)
           /\ ret[1] = Result(Nil, FALSE)
           /\ obs[1].cb
           /\ obs[1].cbPrev = ref[k]
           /\ obs[1].cbOk = (ref[k] # Nil)

C3_Witness ==
    /\ Returned(1, "SetAccept")
    /\ call[1].accept = "false"
    /\ call[1].value = "world"
    /\ obs[1].cbOk
    /\ obs[1].cbPrev = "planet"

\* C4: a SetAccept whose callback returns true, or that has no callback,
\* commits: the key holds the new value (so that a following Get returns it)
\* and the call returns the previous value and whether there was one.  In the
\* scenario Set("hello","world"), SetAccept("hello","planet", accepting), Get:
\* SetAccept returns ("world", true) and Get returns ("planet", true).
C4_SetAcceptAccepted ==
    /\ (Returned(1, "SetAccept") /\ call[1].accept \in {"nil", "true"}) =>
           LET k == call[1].key
           IN /\ Stored(k) = {<<choose(k), call[1].value>>}
              /\ ref[k] = call[1].value
              /\ ret[1] = exp[1]
              /\ ret[1].ok = (ret[1].val # Nil)
              /\ call[1].accept = "true" =>
                     /\ obs[1].cb
                     /\ obs[1].cbPrev = ret[1].val
                     /\ obs[1].cbOk = ret[1].ok
    /\ LogCalls = S_Accept =>
           /\ log[2].ret = Result("world", TRUE)
           /\ log[3].ret = Result("planet", TRUE)

C4_Witness ==
    /\ LogCalls = S_Accept
    /\ log[2].obs.cbPrev = "world"
    /\ log[3].ret.val = "planet"

\* C5 as stated: after Set("hello","world") and an accepted
\* SetAccept("hello","planet"), a SetAccept("hello","world") whose callback
\* receives "planet" and returns false yields (nil, false), and a following
\* Get("hello") returns ("world", true).
C5_GetReturnsWorld ==
    LogCalls = S_Planet =>
        /\ log[3].obs.cbPrev = "planet"
        /\ log[3].ret = Result(Nil, FALSE)
        /\ log[4].ret = Result("world", TRUE)

\* C5, amended: in that scenario the rejected SetAccept yields (nil, false)
\* and its callback receives "planet"; the following Get("hello") returns
\* ("planet", true), the value the rejected call found and put back.
C5_GetReturnsPlanet ==
    LogCalls = S_Planet =>
        /\ log[2].ret = Result("world", TRUE)
        /\ log[3].obs.cb
        /\ log[3].obs.cbPrev = "planet"
        /\ log[3].obs.cbOk
        /\ log[3].ret = Result(Nil, FALSE)
        /\ log[4].ret = Result("planet", TRUE)

C5_Witness ==
    /\ LogCalls = S_Planet
    /\ log[3].obs.cbPrev = "planet"
    /\ log[4].ret.ok

\* C6: a DeleteAccept whose callback returns false restores the entry (a key
\* that held p holds p, an absent key stays absent) and returns (nil, false);
\* one whose callback returns true, or that has no callback, leaves the key
\* absent and returns the previous value and whether it was deleted.
C6_DeleteAccept ==
    Returned(1, "DeleteAccept") =>
        LET k == call[1].key
        IN IF call[1].accept = "false"
           THEN /\ Stored(k) = AsRef(k)
                /\ ret[1] = Result(Nil, FALSE)
                /\ obs[1].cb
                /\ obs[1].cbPrev = ref[k]
                /\ obs[1].cbOk = (ref[k] # Nil)
           ELSE /\ Stored(k) = {}
                /\ ref[k] = Nil
                /\ ret[1] = exp[1]
                /\ ret[1].ok = (ret[1].val # Nil)

C6_Witness ==
    /\ Returned(1, "DeleteAccept")
    /\ call[1].accept = "false"
    /\ obs[1].cbOk
    /\ obs[1].cbPrev = "planet"
    /\ Stored(call[1].key) = {<<choose(call[1].key), "planet">>}

\* C7: a Range whose visitor returns false at its first call calls the
\* visitor exactly once on a non-empty map (never on an empty one), however
\* many shards there are and wherever the entries are; it ends at the shard
\* of the entry visited, and no shard is read-locked when it returns.
C7_RangeStopsAtFirst ==
    (Returned(1, "Range") /\ call[1].iter = 1) =>
        /\ obs[1].n = IF \E k \in Keys : ref[k] # Nil THEN 1 ELSE 0
        /\ obs[1].n = 1 =>
               /\ loc[1].done
               /\ \E k \in Keys : ref[k] # Nil /\ loc[1].seen = {k} /\ loc[1].i = choose(k)
        /\ \A s \in DOMAIN mus : mus[s].r = 0 /\ mus[s].w = 0

C7_Witness ==
    /\ Returned(1, "Range")
    /\ call[1].iter = 1
    /\ obs[1].n = 1
    /\ \A k \in Keys : ref[k] # Nil
    /\ shards = 32
    /\ \E k \in Keys : choose(k) > loc[1].i

\* C8: when Clear has returned (one caller) every shard's store is empty, so
\* Len is 0 and Get of any key is (nil, false); there are as many shards,
\* locks and stores as initDo made, with the capacity hint of initDo.  In the
\* scenario of TestClear, Len after Clear returns 0, Get of a cleared key
\* (nil, false), and a later Set and Get of that key return (nil, false) and
\* the value set.
C8_ClearEmpties ==
    /\ Returned(1, "Clear") =>
           /\ \A k \in Keys : Stored(k) = {} /\ ref[k] = Nil
           /\ shards = ShardsFor(1, ncpu)
           /\ DOMAIN maps = 0 .. shards - 1
           /\ DOMAIN mus = 0 .. shards - 1
           /\ \A s \in DOMAIN maps : maps[s] = rhhNew(cap \div shards)
    /\ LogCalls = S_TestClear =>
           /\ log[4].ret.len = 3
           /\ log[6].ret.len = 0
           /\ log[7].ret = Result(Nil, FALSE)
           /\ log[8].ret = Result(Nil, FALSE)
           /\ log[9].ret = Result("planet", TRUE)

C8_Witness ==
    /\ LogCalls = S_TestClear
    /\ log[4].ret.len = 3
    /\ log[6].ret.len = 0
    /\ shards = 32
    /\ cap = 100

(***************************************************************************)
(* The sections of the methods that run under a shard's lock.              *)
(***************************************************************************)
\* t is between Lock's return and Unlock on shard s
InWrite(t, s) ==
    \/ /\ pc[t] \in {"Set_Set", "Set_Unlock", "Delete_Delete", "Delete_Unlock",
                     "SetAccept_Set", "SetAccept_accept", "SetAccept_call",
                     "SetAccept_Unlock", "DeleteAccept_Delete", "DeleteAccept_accept",
                     "DeleteAccept_call", "DeleteAccept_Unlock"}
       /\ loc[t].shard = s
    \/ /\ pc[t] \in {"Len_Len", "Len_Unlock", "Clear_New", "Clear_Unlock"}
       /\ loc[t].i = s

\* t is between RLock's return and RUnlock on shard s
InRead(t, s) ==
    \/ pc[t] \in {"Get_Get", "Get_RUnlock"} /\ loc[t].shard = s
    \/ pc[t] \in {"Range_Range", "Range_call", "Range_RUnlock"} /\ loc[t].i = s

\* the shard whose lock t holds, if any
Section(t) ==
    IF pc[t] \in {"Len_Len", "Len_Unlock", "Clear_New", "Clear_Unlock",
                  "Range_Range", "Range_call", "Range_RUnlock"}
    THEN {loc[t].i}
    ELSE IF pc[t] \in {"idle", "initDo", "initDo_func", "initDo_done", "done",
                       "Len_for", "Len_Locking", "Clear_for", "Clear_Locking", "Range_for",
                       "Set_Lock", "Set_Locking", "Get_RLock", "Delete_Lock",
                       "Delete_Locking", "SetAccept_Lock", "SetAccept_Locking",
                       "DeleteAccept_Lock", "DeleteAccept_Locking"}
         THEN {}
         ELSE {loc[t].shard}

\* t has made the tentative change of SetAccept or DeleteAccept on shard s
\* and has not returned yet
Tentative(t, s) ==
    /\ pc[t] \in {"SetAccept_accept", "SetAccept_call", "SetAccept_Unlock",
                  "DeleteAccept_accept", "DeleteAccept_call", "DeleteAccept_Unlock"}
    /\ loc[t].shard = s

\* C9: for every shard, at most one thread is inside a mutating section
\* (Set, Delete, SetAccept, DeleteAccept, Clear's replacement, Len's count),
\* and no thread is inside a read section (Get, Range's iteration) while
\* another one is inside a mutating section; read sections may overlap.
C9_ShardLockDiscipline ==
    \A t \in Threads : \A u \in Threads \ {t} : \A s \in Section(t) :
        InWrite(t, s) => ~InWrite(u, s) /\ ~InRead(u, s)

\* two threads are inside read sections of the same shard at once
C9_Witness ==
    \E s \in DOMAIN mus : \E t \in Threads : \E u \in Threads \ {t} :
        /\ InRead(t, s) /\ InRead(u, s)
        /\ mus[s].r = 2
        /\ ncalls = MaxCalls

\* C10: while a thread is between the tentative change of SetAccept or
\* DeleteAccept and its return, no other thread is inside a read or mutating
\* section of that shard; every value a Get reads is the one the reference
\* map holds, which rejected calls never change; and a key is stored
\* otherwise than in the reference map only while a thread holds it
\* tentatively.
C10_TentativeUnobserved ==
    /\ \A t \in Threads : \A u \in Threads \ {t} : \A s \in Section(t) :
           Tentative(t, s) => ~InWrite(u, s) /\ ~InRead(u, s)
    /\ \A u \in Threads :
           (pc[u] \in {"Get_RUnlock", "done"} /\ call[u].op = "Get") =>
               /\ loc[u].prev = exp[u].val
               /\ loc[u].ok = exp[u].ok
    /\ \A k \in Keys :
           Stored(k) # AsRef(k) =>
               \E t \in Threads : Tentative(t, choose(k)) /\ call[t].key = k

\* a rejecting SetAccept holds its tentative value over a present key while
\* another thread's Get of that key waits for the shard
C10_Witness ==
    \E t \in Threads : \E u \in Threads \ {t} :
        /\ pc[t] = "SetAccept_accept"
        /\ call[t].accept = "false"
        /\ loc[t].ok
        /\ loc[t].prev # call[t].value
        /\ pc[u] = "Get_RLock"
        /\ call[u].key = call[t].key

(***************************************************************************)
(* Linearizability.  The reference map is updated at the step a call makes *)
(* under its shard's lock, so the order of those steps is a sequential     *)
(* execution that respects the order in which the calls held the lock.     *)
(***************************************************************************)
KeyOps == {"Set", "Get", "Delete", "SetAccept", "DeleteAccept"}

\* C11: under any interleaving of Set, Get, Delete, SetAccept and
\* DeleteAccept calls of several threads, every call returns what the
\* reference map returned for it when the call held its shard's lock (so a
\* Get returns the value of the latest mutation of its key that held the lock
\* before it), and when no call is inside a section of a key's shard the map
\* holds for that key what the reference map holds.
C11_Linearizable ==
    /\ \A t \in Threads :
           (pc[t] = "done" /\ call[t].op \in KeyOps) => ret[t] = exp[t]
    /\ \A k \in Keys :
           (\A t \in Threads : Section(t) = {}) => Stored(k) = AsRef(k)

\* one thread's Get has returned the value that the other thread's accepted
\* SetAccept put over the value of an earlier Set
C11_Witness ==
    \E t \in Threads : \E u \in Threads \ {t} :
        /\ Returned(t, "Get")
        /\ ret[t] = Result("planet", TRUE)
        /\ Returned(u, "SetAccept")
        /\ call[u].accept = "true"
        /\ ret[u] = Result("world", TRUE)

(***************************************************************************)
(* AcceptSpec: thread 1 calls SetAccept and DeleteAccept on "hello"; the    *)
(* other threads make any call on "hello" or on "a", a key of another      *)
(* shard.                                                                  *)
(***************************************************************************)
AcceptKeys == {"hello", "a"}

Budget == ncalls < MaxCalls /\ ncalls' = ncalls + 1

AcceptCall(t) ==
    /\ Budget
    /\ ~Scripted
    /\ \E c \in {CallAcc("SetAccept", "hello", "world", a) : a \in Accepts}
                \cup {CallAcc("DeleteAccept", "hello", Nil, a) : a \in Accepts} :
           Call(t, c)
    /\ UNCHANGED <<script, log>>

OtherCall(t) ==
    /\ Budget
    /\ ~Scripted
    /\ \E c \in Calls(AcceptKeys, {"planet"}) : Call(t, c)
    /\ UNCHANGED <<script, log>>

AcceptNext ==
    \/ initStep(1) \/ SetAcceptStep(1) \/ DeleteAcceptStep(1) \/ Return(1)
    \/ AcceptCall(1)
    \/ \E u \in Threads \ {1} : Step(u) \/ OtherCall(u)

AcceptSpec == Init /\ [][AcceptNext]_vars

\* the shard a key is routed to, from its hash alone
Route(key) == Sum64String(key) % shards

\* the shard whose lock the next step of u has to acquire, if any
Wanted(u) ==
    IF pc[u] \in {"Set_Lock", "Get_RLock", "Delete_Lock", "SetAccept_Lock",
                  "DeleteAccept_Lock"}
    THEN {Route(call[u].key)}
    ELSE IF pc[u] \in {"Set_Locking", "Delete_Locking", "SetAccept_Locking",
                       "DeleteAccept_Locking"}
         THEN {loc[u].shard}
         ELSE IF \/ pc[u] \in {"Len_Locking", "Clear_Locking"}
                 \/ pc[u] \in {"Len_for", "Clear_for", "Range_for"} /\ loc[u].i < shards
              THEN {loc[u].i}
              ELSE {}

\* the shards whose lock v holds or has announced that it waits for
Holds(v) == Section(v) \cup {s \in DOMAIN mus : mus[s].w = v}

\* t is executing the accept callback
InAccept(t) ==
    pc[t] \in {"SetAccept_accept", "SetAccept_call", "DeleteAccept_accept",
               "DeleteAccept_call"}

\* C12: while a thread t executes the accept callback of SetAccept or
\* DeleteAccept on shard s, a call of another thread u can always take its
\* next step (so it runs to its return while t stays in the callback) unless
\* that step has to acquire the lock of s, in which case it waits: calls on
\* keys routed to other shards and the scans of Len, Range and Clear at
\* other shards never wait for t.  (With more than two threads u may wait for
\* a third thread that holds the lock u wants.)
C12_OtherShardsAvailable ==
    \A t \in Threads : InAccept(t) =>
        \A u \in Threads \ {t} : pc[u] # "idle" =>
            IF Wanted(u) = {loc[t].shard}
            THEN ~ENABLED Body(u)
            ELSE \/ ENABLED Step(u)
                 \/ \E v \in Threads \ {t, u} : Wanted(u) \cap Holds(v) # {}

\* while thread 1 is in its callback on the shard of "hello", another thread
\* has completed a Set of "a" and its Len has gone past the shard of "a" and
\* waits at the shard of "hello"
C12_Witness ==
    \E u \in Threads \ {1} :
        /\ InAccept(1)
        /\ ref["a"] = "planet"
        /\ ref["hello"] = Nil
        /\ call[u].op = "Len"
        /\ pc[u] = "Len_for"
        /\ loc[u].i = loc[1].shard
        /\ loc[u].len = 0

(***************************************************************************)
(* ReentSpec: the callbacks and visitors of thread 1 may call the map; the  *)
(* other threads are writers of "hello" and of the whole map.              *)
(***************************************************************************)
HostCalls ==
    {CallSet("Set", "hello", "world"), CallRange(0),
     CallAcc("SetAccept", "hello", "planet", "false"),
     CallAcc("DeleteAccept", "hello", Nil, "true")}

WriterCalls ==
    {CallSet("Set", "hello", "planet"), CallKey("Delete", "hello"),
     CallAll("Len"), CallAll("Clear")}

\* the calls a callback or visitor makes: every method, on either key
NestedCalls == {c \in Calls(AcceptKeys, {"planet"}) : c.accept = "nil" /\ c.iter = 0}

ReentBudget ==
    /\ ncalls < MaxReentCalls
    /\ ncalls' = ncalls + 1
    /\ UNCHANGED <<script, log>>

ReentCall(t) ==
    /\ ReentBudget
    /\ \E c \in IF t = 1 THEN HostCalls ELSE WriterCalls : Call(t, c)

ReentNext ==
    \E t \in Threads :
        \/ Step(t)
        \/ Body(Child(t))
        \/ ReentCall(t)
        \/ \E c \in NestedCalls : ReentBudget /\ SetAcceptCalls(t, c)
        \/ \E c \in NestedCalls : ReentBudget /\ DeleteAcceptCalls(t, c)
        \/ \E c \in NestedCalls : ReentBudget /\ RangeIterCalls(t, c)
        \/ SetAcceptResumes(t) /\ UNCHANGED <<script, log, ncalls>>
        \/ DeleteAcceptResumes(t) /\ UNCHANGED <<script, log, ncalls>>
        \/ RangeIterResumes(t) /\ UNCHANGED <<script, log, ncalls>>

ReentSpec == Init /\ [][ReentNext]_vars

\* the call of frame c comes to shard s: its key is routed to s, or it is a
\* scan of all the shards
Reaches(c, s) ==
    \/ call[c].op \in KeyOps /\ Route(call[c].key) = s
    \/ call[c].op \in {"Len", "Range", "Clear"}

\* frame c has not returned, has not been inside a section of shard s, and
\* where its next step is to acquire the lock of s it can at most announce
\* itself as a waiting writer
BlockedAt(c, s) ==
    /\ pc[c] # "done"
    /\ ~InWrite(c, s)
    /\ ~InRead(c, s)
    /\ (Wanted(c) = {s} /\ ENABLED Body(c)) => mus[s].w = 0 /\ mus[s].r > 0

\* C13: a call made by an accept callback of SetAccept or DeleteAccept that
\* comes to the shard being mutated, and a Set or Delete made by a Range
\* visitor on a key routed to the shard being visited, never enters its
\* section of that shard and never returns: it stays blocked on the shard's
\* lock, and the outer call, which waits for it, stays inside its callback.
C13_ReentrantBlocks ==
    \A t \in Threads :
        /\ (pc[t] \in {"SetAccept_call", "DeleteAccept_call"}
                /\ Reaches(Child(t), loc[t].shard))
               => BlockedAt(Child(t), loc[t].shard)
        /\ (pc[t] = "Range_call" /\ call[Child(t)].op \in {"Set", "Delete"}
                /\ Reaches(Child(t), loc[t].i))
               => BlockedAt(Child(t), loc[t].i)

\* a Range visitor's Delete of the entry it is visiting waits for the readers
\* of the shard to leave, of which Range is one, and nothing in the thread can
\* take a step
C13_Witness ==
    /\ pc[1] = "Range_call"
    /\ call[Child(1)] = CallKey("Delete", "hello")
    /\ pc[Child(1)] = "Delete_Locking"
    /\ mus[loc[1].i] = [w |-> Child(1), r |-> 1]
    /\ ~ENABLED (Step(1) \/ Body(Child(1)))

(***************************************************************************)
(* Initialisation.                                                         *)
(***************************************************************************)
\* the frames inside the function that init.Do runs
InInit == {t \in Frames : pc[t] \in {"initDo_func", "initDo_done"}}

\* the shard count and the two arrays as allocated
Allocated == <<shards, DOMAIN mus, DOMAIN maps>>

InitOnce ==
    /\ Cardinality(InInit) = IF once = "running" THEN 1 ELSE 0
    /\ once = "new" => Allocated = <<0, {}, {}>>
    /\ \A t \in Frames :
           /\ pc[t] \notin {"idle", "initDo", "initDo_func", "initDo_done"} => once = "done"
           /\ (pc[t] = "initDo" /\ once = "running") => ~ENABLED Body(t)

\* C14: the shard count and the two arrays are set in one step only, taken
\* by the one frame that runs the function of init.Do, from the state where
\* nothing is allocated, and never again (shards is not 0 afterwards, and a
\* finished initialisation stays finished, through Clear as well); while it
\* runs every other caller waits at initDo, and every frame that is past
\* initDo, at a lock or a store, finds the initialisation finished.
C14_InitOnce ==
    /\ []InitOnce
    /\ [][/\ Allocated' # Allocated =>
               /\ once = "running"
               /\ Allocated = <<0, {}, {}>>
               /\ shards' # 0
               /\ \E t \in InInit : pc[t] = "initDo_func" /\ pc'[t] = "initDo_done"
          /\ once = "done" => once' = "done"
          /\ once = "running" => once' # "new"]_vars

\* the first caller has allocated the shards and not yet left init.Do; the
\* other thread's first call waits
C14_Witness ==
    \E t \in Threads : \E u \in Threads \ {t} :
        /\ once = "running"
        /\ pc[t] = "initDo_done"
        /\ shards = 16
        /\ pc[u] = "initDo"
        /\ ~ENABLED Body(u)

(***************************************************************************)
(* The shard count.                                                        *)
(***************************************************************************)
IsPowerOfTwo(n) == \E e \in 0 .. 30 : n = 2 ^ e

\* C15: once allocated, the shard count is a power of two, at least 16 times
\* the number of CPUs, and its half is less than that (it is the smallest
\* such power), whatever the capacity hint; the lock array and the store
\* array have exactly the indices 0 .. shards-1; and no step of any call,
\* Clear included, changes the shard count or the length of the arrays.
C15_ShardCount ==
    /\ [](shards # 0 =>
             /\ IsPowerOfTwo(shards)
             /\ shards >= 16 * ncpu
             /\ shards \div 2 < 16 * ncpu
             /\ DOMAIN mus = 0 .. shards - 1
             /\ DOMAIN maps = 0 .. shards - 1)
    /\ [][shards # 0 =>
             /\ shards' = shards
             /\ DOMAIN mus' = DOMAIN mus
             /\ DOMAIN maps' = DOMAIN maps]_vars

\* on 3 CPUs (16 times 3 is not a power of two) a map made with a capacity
\* hint has 64 shards, as many locks and as many stores when Clear returns
C15_Witness ==
    /\ Returned(1, "Clear")
    /\ ncpu = 3
    /\ cap = 100
    /\ shards = 64
    /\ DOMAIN mus = 0 .. 63
    /\ DOMAIN maps = 0 .. 63

(***************************************************************************)
(* The shard of a key.                                                     *)
(***************************************************************************)
\* C16: in every state with the shards allocated, choose(k), the hash of k
\* ANDed with shards-1, is the hash modulo shards and an index of the
\* arrays, and k has an entry in at most one shard, which is that one:
\* nothing (the reverts of SetAccept and DeleteAccept and Clear included)
\* leaves a key in another shard.
C16_KeyInItsShard ==
    shards # 0 =>
        \A k \in Keys :
            /\ choose(k) = Sum64String(k) % shards
            /\ choose(k) \in 0 .. shards - 1
            /\ choose(k) \in DOMAIN maps
            /\ Cardinality(Stored(k)) <= 1
            /\ \A e \in Stored(k) : e[1] = Sum64String(k) % shards

\* with 64 shards the three keys are in three shards, "hello" put back there
\* by the revert of a rejected SetAccept
C16_Witness ==
    /\ Returned(1, "SetAccept")
    /\ call[1].accept = "false"
    /\ call[1].key = "hello"
    /\ shards = 64
    /\ Stored("hello") = {<<37, "world">>}
    /\ Stored("hi") = {<<53, "world">>}
    /\ Stored("a") = {<<42, "planet">>}

(***************************************************************************)
(* LenSpec: thread 1 calls Len while the other threads set and delete      *)
(* "hello" and "a", keys of two shards.                                    *)
(***************************************************************************)
LenBudget ==
    /\ ncalls < MaxLenCalls
    /\ ncalls' = ncalls + 1
    /\ UNCHANGED <<script, log>>

LenCall(t) == LenBudget /\ Call(t, CallAll("Len"))

SetDeleteCall(t) ==
    /\ LenBudget
    /\ \E k \in AcceptKeys :
           Call(t, CallSet("Set", k, "world")) \/ Call(t, CallKey("Delete", k))

LenNext ==
    \/ initStep(1) \/ LenStep(1) \/ Return(1) \/ LenCall(1)
    \/ \E u \in Threads \ {1} :
           initStep(u) \/ SetStep(u) \/ DeleteStep(u) \/ Return(u) \/ SetDeleteCall(u)

LenSpec == Init /\ [][LenNext]_vars

\* the keys the reference map holds in shard s
InShard(s) == {k \in Keys : ref[k] # Nil /\ Route(k) = s}

\* frame t is in Len, past initDo
InLen(t) == call[t].op = "Len" /\ pc[t] \notin {"idle", "initDo", "initDo_func", "initDo_done"}

\* C17: a Len call holds or awaits the lock of no shard but the one its loop
\* is at, and is alone in that shard while it counts; the loop index only
\* ever goes up by one, on Unlock; the count changes only in the step made
\* under the lock of shard i, by the number of keys the map holds in shard i
\* at that moment; and Len returns the sum after the last shard.  (That the
\* sum need not be the size of the map at any one moment is C17_Witness.)
C17_LenShardByShard ==
    /\ [](\A t \in Frames : InLen(t) =>
             /\ Holds(t) \subseteq {loc[t].i}
             /\ pc[t] \in {"Len_Len", "Len_Unlock"} =>
                    /\ mus[loc[t].i] = [w |-> t, r |-> 0]
                    /\ \A u \in Frames \ {t} : loc[t].i \notin Section(u)
             /\ pc[t] = "done" => ret[t].len = loc[t].len /\ loc[t].i = shards)
    /\ [][\A t \in Frames : (InLen(t) /\ call'[t].op = "Len") =>
             /\ loc'[t].i # loc[t].i =>
                    /\ pc[t] = "Len_Unlock"
                    /\ loc'[t].i = loc[t].i + 1
                    /\ loc[t].i \notin Holds(t)'
             /\ loc'[t].len # loc[t].len =>
                    /\ pc[t] = "Len_Len"
                    /\ loc'[t].len = loc[t].len + Cardinality(InShard(loc[t].i))]_vars

\* Len has returned a number that the size of the map never was between the
\* call of Len and its return
C17_Witness ==
    /\ Returned(1, "Len")
    /\ sizes[1] # {}
    /\ ret[1].len \notin sizes[1]

(***************************************************************************)
(* FairSpec: the threads of Spec under a fair scheduler: a thread that can *)
(* take a step of its call does take one.  (Whether a thread makes a call  *)
(* is up to it.)  Callbacks and visitors return and do not call the map.   *)
(***************************************************************************)
FairNext ==
    \E t \in Threads :
        \/ Step(t)
        \/ /\ ncalls < MaxFairCalls
           /\ ncalls' = ncalls + 1
           /\ FreeCall(t, ConcKeys)

FairSpec == Init /\ [][FairNext]_vars /\ \A t \in Threads : WF_vars(Step(t))

\* the locks are held by the frames inside the sections, and by no others
LocksAsHeld ==
    \A s \in DOMAIN mus :
        /\ mus[s].r = Cardinality({t \in Frames : InRead(t, s)})
        /\ mus[s].w = 0 => \A t \in Frames : ~InWrite(t, s)
        /\ mus[s].w # 0 => s \in Holds(mus[s].w) /\ ~InRead(mus[s].w, s)

NoDeadlock ==
    (\E t \in Threads : pc[t] # "idle") => \E t \in Threads : ENABLED Step(t)

\* C18: no frame holds or awaits the locks of two shards, a frame that has
\* returned or is between calls holds none (each lock is held exactly by
\* the frames inside its sections), some thread inside a call can always
\* take a step, and under fair scheduling every call that was started
\* returns.
C18_LocksReleasedCallsReturn ==
    /\ [](\A t \in Frames :
             /\ Cardinality(Holds(t)) <= 1
             /\ pc[t] \in {"idle", "done"} => Holds(t) = {})
    /\ []LocksAsHeld
    /\ []NoDeadlock
    /\ \A t \in Threads : (pc[t] # "idle") ~> (pc[t] = "done")

\* a Clear that has cleared some shards waits for the shard that a Range of
\* the other thread is about to leave
C18_Witness ==
    \E t \in Threads : \E u \in Threads \ {t} :
        /\ pc[t] = "Clear_Locking"
        /\ pc[u] = "Range_RUnlock"
        /\ loc[u].i = loc[t].i
        /\ loc[t].i > 0
        /\ mus[loc[t].i] = [w |-> t, r |-> 1]
        /\ ~ENABLED Step(t)

(***************************************************************************)
(* What a call leaves alone.                                               *)
(***************************************************************************)
\* C19: every step of a Set, Delete, SetAccept or DeleteAccept on key k
\* (accepted or rejected) leaves every other key, of the same shard or of
\* another, present or absent as it was and with the value it had; every
\* step of a Get, a Len or a Range leaves all the keys so.
C19_OtherKeysUnchanged ==
    [][/\ call[1].op \in {"Set", "Delete", "SetAccept", "DeleteAccept"} =>
              \A k \in Keys \ {call[1].key} : Stored(k)' = Stored(k)
       /\ call[1].op \in {"Get", "Len", "Range"} =>
              \A k \in Keys : Stored(k)' = Stored(k)]_vars

\* a rejected SetAccept on "hello" has returned and "hi", in the same shard
\* of 16, and "a", in another shard, still hold their values
C19_Witness ==
    /\ Returned(1, "SetAccept")
    /\ call[1].key = "hello"
    /\ call[1].accept = "false"
    /\ obs[1].cb
    /\ shards = 16
    /\ Stored("hi") = {<<choose("hello"), "planet">>}
    /\ Stored("a") = {<<10, "world">>}

(***************************************************************************)
(* A Range visitor that calls Get.                                         *)
(***************************************************************************)
\* the steps at which a writer that has called Lock waits for the readers
AwaitsReaders(u) ==
    pc[u] \in {"Set_Locking", "Delete_Locking", "SetAccept_Locking",
               "DeleteAccept_Locking", "Len_Locking", "Clear_Locking"}

\* The visitor of t's Range has called a Get that is routed to the shard
\* Range is visiting; the Get waits in RLock for the writer that has called
\* Lock on that shard, the writer waits for the readers to leave, and Range,
\* one of the readers, waits for its visitor.
WaitCycle(t) ==
    /\ pc[t] = "Range_call"
    /\ call[Child(t)].op = "Get"
    /\ pc[Child(t)] = "Get_RLock"
    /\ Route(call[Child(t)].key) = loc[t].i
    /\ InRead(t, loc[t].i)
    /\ mus[loc[t].i].r > 0
    /\ mus[loc[t].i].w # 0
    /\ AwaitsReaders(mus[loc[t].i].w)
    /\ ~ENABLED Body(Child(t))
    /\ ~ENABLED Step(mus[loc[t].i].w)

\* once in the cycle, always in it: none of the three ever takes a step
WaitCycleForever == [][\A t \in Threads : WaitCycle(t) => WaitCycle(t)']_vars

\* C20 as stated: a Get made by a Range visitor never blocks forever, also
\* when a Set, Delete, Len or Clear of another thread has started to wait
\* for the exclusive lock of the visited shard: the wait cycle of Get,
\* writer and Range is never reached.
C20_VisitorGetReturns == \A t \in Threads : ~WaitCycle(t)

(***************************************************************************)
(* ClearSpec: thread 1 calls Clear while the other threads set and delete  *)
(* "hello" and "a", keys of two shards.                                    *)
(***************************************************************************)
ClearCall(t) ==
    /\ Budget
    /\ Call(t, CallAll("Clear"))
    /\ UNCHANGED <<script, log>>

ClearSetCall(t) ==
    /\ Budget
    /\ \E k \in AcceptKeys : \E v \in Values :
           Call(t, CallSet("Set", k, v)) \/ Call(t, CallKey("Delete", k))
    /\ UNCHANGED <<script, log>>

ClearNext ==
    \/ initStep(1) \/ ClearStep(1) \/ Return(1) \/ ClearCall(1)
    \/ \E u \in Threads \ {1} :
           initStep(u) \/ SetStep(u) \/ DeleteStep(u) \/ Return(u) \/ ClearSetCall(u)

ClearSpec == Init /\ [][ClearNext]_vars

\* every call has returned
Quiet == \A t \in Frames : pc[t] \in {"idle", "done"}

\* C21: Clear empties one shard per step made under that shard's lock: the
\* step leaves the keys of the other shards as they are, in the stores and
\* in the reference map.  The reference map holds for k the value of the
\* latest Set(k, v) that held the lock of k's shard after Clear's latest
\* visit of that shard with no Delete(k) after it, and nothing otherwise; when
\* all calls have returned, the stores hold exactly that, so a key whose
\* last Set came before Clear's visit of its shard is absent.  (That the
\* map can hold a key when Clear returns is C21_Witness.)
C21_ClearShardByShard ==
    /\ [](Quiet => \A k \in Keys : Stored(k) = AsRef(k))
    /\ [][\A t \in Frames : (pc[t] = "Clear_New" /\ pc'[t] = "Clear_Unlock") =>
             \A k \in Keys :
                 IF Route(k) = loc[t].i
                 THEN Stored(k)' = {} /\ ref'[k] = Nil
                 ELSE Stored(k)' = Stored(k) /\ ref'[k] = ref[k]]_vars

\* Clear has returned and all the calls with it; "hello", of shard 5, which
\* Clear visited before the Set of "hello" held the lock, is in the map, and
\* "a", of shard 10, is not
C21_Witness ==
    /\ Returned(1, "Clear")
    /\ Quiet
    /\ ncalls = MaxCalls
    /\ Stored("hello") = {<<5, "world">>}
    /\ Stored("a") = {}

====
